---- MODULE Spec2Model ----
(***************************************************************************)
(* json-parser (src/main.rs, src/parser.rs): the batch driver `main`, the  *)
(* recursive-descent parser JSON::parse and the printer (Display for JSON  *)
(* and JSONValue).                                                         *)
(*                                                                         *)
(* Text is a sequence of one-character strings.  The call stack of the     *)
(* parser is explicit: every loop iteration of the source is one step.     *)
(***************************************************************************)
EXTENDS Integers, Sequences, FiniteSets, TLC

(***************************************************************************)
(* Characters                                                              *)
(***************************************************************************)
Quote == "\""
Backslash == "\\"

\* char::is_whitespace, on the characters of the model's alphabet
IsWhitespace(ch) == ch \in {" ", "\t", "\n", "\r"}

DigitChars == <<"0", "1", "2", "3", "4", "5", "6", "7", "8", "9">>

\* char::is_numeric, on the characters of the model's alphabet
IsNumeric(ch) == \E i \in DOMAIN DigitChars : DigitChars[i] = ch

DigitVal(ch) == (CHOOSE i \in DOMAIN DigitChars : DigitChars[i] = ch) - 1

(***************************************************************************)
(* JSONValue (parser.rs 4-11) and JSON (parser.rs 37-39).  Every value is  *)
(* a record of the same shape; `type` is the variant.  A JSON document is  *)
(* the HashMap, a function from keys to values.                            *)
(***************************************************************************)
EmptyMap == <<>>

NullV == [type |-> "Null", s |-> <<>>, n |-> 0, b |-> FALSE, a |-> <<>>, o |-> EmptyMap]
StringV(str) == [NullV EXCEPT !.type = "String", !.s = str]
NumberV(num) == [NullV EXCEPT !.type = "Number", !.n = num]
BoolV(bool) == [NullV EXCEPT !.type = "Bool", !.b = bool]
ArrayV(vals) == [NullV EXCEPT !.type = "Array", !.a = vals]
ObjectV(json) == [NullV EXCEPT !.type = "Object", !.o = json]

\* HashMap::insert: a key already present is overwritten
MapInsert(object, key, value) ==
    [k \in (DOMAIN object) \cup {key} |-> IF k = key THEN value ELSE object[k]]

(***************************************************************************)
(* Text helpers                                                            *)
(***************************************************************************)
RECURSIVE TrimStart(_)
TrimStart(str) ==
    IF str # <<>> /\ IsWhitespace(Head(str)) THEN TrimStart(Tail(str)) ELSE str

RECURSIVE TrimEnd(_)
TrimEnd(str) ==
    IF str # <<>> /\ IsWhitespace(str[Len(str)])
    THEN TrimEnd(SubSeq(str, 1, Len(str) - 1))
    ELSE str

\* str::trim, as parse_from_string applies it (parser.rs 68)
Trim(str) == TrimEnd(TrimStart(str))

\* str::starts_with(char), str::ends_with(char), str::contains(char)
StartsWithChar(str, ch) == str # <<>> /\ Head(str) = ch
EndsWithChar(str, ch) == str # <<>> /\ str[Len(str)] = ch
Contains(str, ch) == \E i \in DOMAIN str : str[i] = ch

\* str::ends_with(&str)
EndsWith(str, suffix) ==
    /\ Len(str) >= Len(suffix)
    /\ SubSeq(str, Len(str) - Len(suffix) + 1, Len(str)) = suffix

DotJson == <<".", "j", "s", "o", "n">>

(***************************************************************************)
(* str::parse::<i32> (parser.rs 349): an optional sign, then one or more   *)
(* decimal digits, accumulated with overflow checks.                       *)
(***************************************************************************)
I32Max == 2147483647
I32Min == -I32Max - 1

ParseErr == [ok |-> FALSE, n |-> 0]

RECURSIVE AccPos(_, _)
AccPos(ds, acc) ==
    IF ds = <<>> THEN [ok |-> TRUE, n |-> acc]
    ELSE IF ~IsNumeric(Head(ds)) THEN ParseErr
    ELSE LET d == DigitVal(Head(ds)) IN
         IF acc > (I32Max - d) \div 10 THEN ParseErr
         ELSE AccPos(Tail(ds), acc * 10 + d)

RECURSIVE AccNeg(_, _)
AccNeg(ds, acc) ==
    IF ds = <<>> THEN [ok |-> TRUE, n |-> acc]
    ELSE IF ~IsNumeric(Head(ds)) THEN ParseErr
    ELSE LET d == DigitVal(Head(ds)) IN
         IF acc < (I32Min + d + 9) \div 10 THEN ParseErr
         ELSE AccNeg(Tail(ds), acc * 10 - d)

ParseI32(value) ==
    IF value = <<>> THEN ParseErr
    ELSE IF Head(value) = "-"
         THEN (IF Tail(value) = <<>> THEN ParseErr ELSE AccNeg(Tail(value), 0))
    ELSE IF Head(value) = "+"
         THEN (IF Tail(value) = <<>> THEN ParseErr ELSE AccPos(Tail(value), 0))
    ELSE AccPos(value, 0)

(***************************************************************************)
(* The printer                                                             *)
(***************************************************************************)
RECURSIVE NatToChars(_)
NatToChars(num) ==
    IF num < 10 THEN <<DigitChars[num + 1]>>
    ELSE NatToChars(num \div 10) \o <<DigitChars[(num % 10) + 1]>>

\* Display for i32 (parser.rs 17); the last digit is split off before the
\* sign is dropped, so that i32::MIN needs no negation out of range
I32ToChars(num) ==
    IF num >= 0 THEN NatToChars(num)
    ELSE LET q == -((num + 9) \div 10)
             r == (10 - (num % 10)) % 10
         IN  <<"-">> \o (IF q = 0 THEN <<>> ELSE NatToChars(q)) \o <<DigitChars[r + 1]>>

RECURSIVE Concat(_)
Concat(seqs) == IF seqs = <<>> THEN <<>> ELSE Head(seqs) \o Concat(Tail(seqs))

\* str::lines: split at "\n" (a "\r" before it is dropped too); the text
\* after the last "\n" is a line only when it is not empty
RECURSIVE LinesFrom(_, _)
LinesFrom(str, cur) ==
    IF str = <<>> THEN (IF cur = <<>> THEN <<>> ELSE <<cur>>)
    ELSE IF Head(str) = "\n"
         THEN <<IF EndsWithChar(cur, "\r") THEN SubSeq(cur, 1, Len(cur) - 1) ELSE cur>>
                  \o LinesFrom(Tail(str), <<>>)
    ELSE LinesFrom(Tail(str), Append(cur, Head(str)))

Lines(str) == LinesFrom(str, <<>>)

\* get_padded_string (parser.rs 380-388)
get_padded_string(str) ==
    LET ls == Lines(str) IN
    Concat([i \in DOMAIN ls |-> <<" ", " ">> \o ls[i] \o <<"\n">>])

\* the orders in which HashMap::keys may enumerate the keys
KeyOrders(object) ==
    LET n == Cardinality(DOMAIN object) IN
    {ord \in [1..n -> DOMAIN object] : \A i, j \in 1..n : ord[i] = ord[j] => i = j}

\* all ways to pick one element of choices[x] for every x of the domain
Picks(choices) ==
    {f \in [DOMAIN choices -> UNION {choices[x] : x \in DOMAIN choices}] :
        \A x \in DOMAIN choices : f[x] \in choices[x]}

\* Display for JSONValue, String (parser.rs 16): the text between two quotes
DisplayString(val) == <<Quote>> \o val \o <<Quote>>

\* Display for bool
DisplayBool(val) == IF val THEN <<"t", "r", "u", "e">> ELSE <<"f", "a", "l", "s", "e">>

\* Display for JSONValue, Array (parser.rs 20-30), given each element's text
DisplayArray(texts) ==
    <<"[">> \o Concat([idx \in DOMAIN texts |->
                 texts[idx] \o (IF idx - 1 < Len(texts) - 1 THEN <<",">> ELSE <<>>)])
            \o <<"]">>

\* Display for JSON (parser.rs 389-411), given the order of the keys and
\* each value's text
DisplayJSON(ord, texts) ==
    IF Len(ord) = 0 THEN <<"{", "}">>
    ELSE LET json_str == Concat([idx \in DOMAIN ord |->
                 (IF Contains(ord[idx], " ")
                  THEN <<Quote>> \o ord[idx] \o <<Quote>>
                  ELSE ord[idx])
                 \o <<":", " ">>
                 \o texts[ord[idx]]
                 \o (IF idx - 1 < Len(ord) - 1 THEN <<",">> ELSE <<>>)
                 \o <<"\n">>])
         IN  <<"{", "\n">> \o get_padded_string(json_str) \o <<"}">>

\* The texts format!("{}", value) can give: one per enumeration order of
\* the maps in the value
RECURSIVE Renders(_)
Renders(val) ==
    CASE val.type = "String" -> {DisplayString(val.s)}
      [] val.type = "Number" -> {I32ToChars(val.n)}
      [] val.type = "Bool" -> {DisplayBool(val.b)}
      [] val.type = "Null" -> {<<"n", "u", "l", "l">>}
      [] val.type = "Array" ->
            {DisplayArray(texts) : texts \in Picks([i \in DOMAIN val.a |-> Renders(val.a[i])])}
      [] val.type = "Object" ->
            {DisplayJSON(ord, texts) :
                ord \in KeyOrders(val.o),
                texts \in Picks([k \in DOMAIN val.o |-> Renders(val.o[k])])}

(***************************************************************************)
(* State                                                                   *)
(***************************************************************************)
VARIABLES
    files,        \* main: the paths given, each with what the file system holds for it
    idx,          \* main: position of the `for file in files` loop
    mpc,          \* main: "loop", "match" (parse_from_file is running or has returned), "exited"
    status_code,  \* main: status_code
    stdout,       \* the lines printed by println!, in order
    stderr,       \* the lines printed by eprintln!, in order
    results,      \* history: what parse_from_file returned for each file processed
    exit_code,    \* the argument of exit(); NoExit until then
    stack,        \* the call stack below main: one frame per active call
    tokens,       \* one cursor (the characters not yet consumed) per active JSON::parse
    ret           \* the value returned by the call that returned last

mainvars == <<files, idx, mpc, status_code, stdout, stderr, results, exit_code>>
vars == <<files, idx, mpc, status_code, stdout, stderr, results, exit_code, stack, tokens, ret>>

NoExit == -1

\* A stack frame: the function, the place in it, and its locals.
\*   str:    content (parse, parse_from_string), file_name (parse_from_file),
\*           key (parse_key), value (parse_string_value, parse_numeric_value),
\*           str (the literal branches of parse_value), object_str (parse_object_value)
\*   flag:   escaped (parse_key, parse_string_value), in_string (parse_object_value)
\*   opened: opened (parse_object_value)
\*   array:  array (parse_array_value)
\*   object: json.object (parse)
\*   key:    key (get_pair)
\*   mark:   history: the cursor's length when the frame's loop was last at its head
Frame(fn, str) ==
    [fn |-> fn, pc |-> "start", str |-> str, flag |-> FALSE, opened |-> 0,
     array |-> <<>>, object |-> EmptyMap, key |-> <<>>, mark |-> 0]

\* Return values, all of one shape.
\*   Result<T, JSONParseError>: Ok(x) is ok with x in val (a JSONValue, a JSON as
\*     ObjectV, a Vec as ArrayV, an i32 as NumberV) or in str (a String); a pair
\*     (key, value) is key in str and value in val.  Err(JSONParseError) is ErrR.
\*   Option<char>: Some(ch) is ok with ch; None is ErrR.
\*   Option<JSONParseError> (skip_colons): None is OkR, Some(JSONParseError) is ErrR.
\*   Result<JSON, ArgsParseError>: Err(ArgsParseError(m)) is not ok with msg = m,
\*     a pair of the file name in the message (or <<>>) and the message's fixed text.
NoMsg == <<<<>>, "">>
ErrR == [ok |-> FALSE, ch |-> "", str |-> <<>>, val |-> NullV, msg |-> NoMsg]
OkR == [ErrR EXCEPT !.ok = TRUE]
SomeCh(ch) == [OkR EXCEPT !.ch = ch]
OkStr(str) == [OkR EXCEPT !.str = str]
OkVal(val) == [OkR EXCEPT !.val = val]
OkPair(key, val) == [OkR EXCEPT !.str = key, !.val = val]
ArgsErr(name, text) == [ErrR EXCEPT !.msg = <<name, text>>]

Top == stack[Len(stack)]
Cur == tokens[Len(tokens)]
At(fn, pc) == Len(stack) > 0 /\ Top.fn = fn /\ Top.pc = pc
Pop(seq) == SubSeq(seq, 1, Len(seq) - 1)
SetTop(frame) == [stack EXCEPT ![Len(stack)] = frame]
SetCur(rest) == [tokens EXCEPT ![Len(tokens)] = rest]

\* the frame stays, at another place
Goto(pc) == stack' = SetTop([Top EXCEPT !.pc = pc])
\* the frame calls: it waits at `pc` for the callee's return
Call(pc, callee) == stack' = Append(SetTop([Top EXCEPT !.pc = pc]), callee)
\* the frame returns r to its caller
Return(r) == stack' = Pop(stack) /\ ret' = r

(***************************************************************************)
(* skip_whitspace (parser.rs 145-153): one iteration of its loop           *)
(***************************************************************************)
skip_whitspace ==
    /\ At("skip_whitspace", "start")
    /\ IF Cur = <<>>
       THEN Return(ErrR) /\ UNCHANGED tokens
       ELSE /\ tokens' = SetCur(Tail(Cur))
            /\ IF ~IsWhitespace(Head(Cur))
               THEN Return(SomeCh(Head(Cur)))
               ELSE UNCHANGED <<stack, ret>>
    /\ UNCHANGED mainvars

(***************************************************************************)
(* The string loop shared, in the source as two copies, by parse_key       *)
(* (parser.rs 167-185) and parse_string_value (parser.rs 358-376)          *)
(***************************************************************************)
StringLoop ==
    IF Cur = <<>>
    THEN Return(ErrR) /\ UNCHANGED tokens
    ELSE LET ch == Head(Cur) IN
         /\ tokens' = SetCur(Tail(Cur))
         /\ IF Top.flag
            THEN /\ stack' = SetTop([Top EXCEPT !.str = Append(Top.str, ch), !.flag = FALSE])
                 /\ UNCHANGED ret
            ELSE IF ch = Quote THEN Return(OkStr(Top.str))
            ELSE IF ch = Backslash
                 THEN stack' = SetTop([Top EXCEPT !.flag = TRUE]) /\ UNCHANGED ret
            ELSE stack' = SetTop([Top EXCEPT !.str = Append(Top.str, ch)]) /\ UNCHANGED ret

(***************************************************************************)
(* parse_key (parser.rs 155-186)                                           *)
(***************************************************************************)
parse_key_start ==
    /\ At("parse_key", "start")
    /\ Call("ret_ws", Frame("skip_whitspace", <<>>))
    /\ UNCHANGED <<mainvars, tokens, ret>>

parse_key_check ==
    /\ At("parse_key", "ret_ws")
    /\ IF ~ret.ok THEN Return(ErrR)
       ELSE IF ret.ch # Quote THEN Return(ErrR)
       ELSE Goto("loop") /\ UNCHANGED ret
    /\ UNCHANGED <<mainvars, tokens>>

parse_key_loop ==
    /\ At("parse_key", "loop")
    /\ StringLoop
    /\ UNCHANGED mainvars

(***************************************************************************)
(* parse_string_value (parser.rs 355-377)                                  *)
(***************************************************************************)
parse_string_value ==
    /\ At("parse_string_value", "start")
    /\ StringLoop
    /\ UNCHANGED mainvars

(***************************************************************************)
(* skip_colons (parser.rs 188-196)                                         *)
(***************************************************************************)
skip_colons_start ==
    /\ At("skip_colons", "start")
    /\ Call("ret_ws", Frame("skip_whitspace", <<>>))
    /\ UNCHANGED <<mainvars, tokens, ret>>

skip_colons_check ==
    /\ At("skip_colons", "ret_ws")
    /\ Return(IF ret.ok /\ ret.ch = ":" THEN OkR ELSE ErrR)
    /\ UNCHANGED <<mainvars, tokens>>

(***************************************************************************)
(* get_pair (parser.rs 125-143)                                            *)
(***************************************************************************)
get_pair_start ==
    /\ At("get_pair", "start")
    /\ Call("ret_key", Frame("parse_key", <<>>))
    /\ UNCHANGED <<mainvars, tokens, ret>>

get_pair_key ==
    /\ At("get_pair", "ret_key")
    /\ IF ~ret.ok THEN Return(ErrR)
       ELSE /\ stack' = Append(SetTop([Top EXCEPT !.pc = "ret_colon", !.key = ret.str]),
                               Frame("skip_colons", <<>>))
            /\ UNCHANGED ret
    /\ UNCHANGED <<mainvars, tokens>>

get_pair_colon ==
    /\ At("get_pair", "ret_colon")
    /\ IF ~ret.ok THEN Return(ErrR)
       ELSE Call("ret_value", Frame("parse_value", <<>>)) /\ UNCHANGED ret
    /\ UNCHANGED <<mainvars, tokens>>

get_pair_value ==
    /\ At("get_pair", "ret_value")
    /\ Return(IF ~ret.ok THEN ErrR ELSE OkPair(Top.key, ret.val))
    /\ UNCHANGED <<mainvars, tokens>>

(***************************************************************************)
(* parse_value (parser.rs 198-271)                                         *)
(***************************************************************************)
LitNull == <<"n", "u", "l", "l">>
LitTrue == <<"t", "r", "u", "e">>
LitFalse == <<"f", "a", "l", "s", "e">>

\* the loops' break conditions (parser.rs 215, 229, 243); str.len() counts
\* bytes, one per character of the model's alphabet
BreakNull(ch, str) == IsWhitespace(ch) \/ (ch = "l" /\ Len(str) = 4)
BreakBool(ch) == IsWhitespace(ch) \/ ch = "e"

\* a faulty variant: a match whose last arm defaults to a value
MatchTrue_Default(str) == OkVal(BoolV(TRUE))

\* the matches on the accumulated token (parser.rs 220-223, 234-237, 247-250)
MatchNull(str) == IF str = LitNull THEN OkVal(NullV) ELSE ErrR
MatchTrue(str) == IF str = LitTrue THEN OkVal(BoolV(TRUE)) ELSE ErrR
MatchFalse(str) == IF str = LitFalse THEN OkVal(BoolV(FALSE)) ELSE ErrR

parse_value_start ==
    /\ At("parse_value", "start")
    /\ Call("ret_ws", Frame("skip_whitspace", <<>>))
    /\ UNCHANGED <<mainvars, tokens, ret>>

\* the match on the first token (parser.rs 201-270)
parse_value_dispatch ==
    /\ At("parse_value", "ret_ws")
    /\ IF ~ret.ok THEN Return(ErrR)
       ELSE LET token == ret.ch IN
            CASE token = Quote ->
                    Call("ret_string", Frame("parse_string_value", <<>>)) /\ UNCHANGED ret
              [] token = "n" ->
                    stack' = SetTop([Top EXCEPT !.pc = "lit_n", !.str = <<"n">>]) /\ UNCHANGED ret
              [] token = "t" ->
                    stack' = SetTop([Top EXCEPT !.pc = "lit_t", !.str = <<"t">>]) /\ UNCHANGED ret
              [] token = "f" ->
                    stack' = SetTop([Top EXCEPT !.pc = "lit_f", !.str = <<"f">>]) /\ UNCHANGED ret
              [] token = "{" ->
                    Call("ret_object", Frame("parse_object_value", <<"{">>)) /\ UNCHANGED ret
              [] token = "[" ->
                    Call("ret_array", [Frame("parse_array_value", <<>>) EXCEPT !.mark = Len(Cur) + 1])
                    /\ UNCHANGED ret
              [] OTHER ->
                    IF IsNumeric(token) \/ token = "-"
                    THEN Call("ret_number", Frame("parse_numeric_value", <<token>>)) /\ UNCHANGED ret
                    ELSE Return(ErrR)
    /\ UNCHANGED <<mainvars, tokens>>

\* one iteration of the loop of the `n` branch and, when the loop ends, its match
parse_value_null ==
    /\ At("parse_value", "lit_n")
    /\ IF Cur = <<>>
       THEN Return(MatchNull(Top.str)) /\ UNCHANGED tokens
       ELSE LET ch == Head(Cur)
                str == Append(Top.str, ch)
            IN  /\ tokens' = SetCur(Tail(Cur))
                /\ IF BreakNull(ch, str)
                   THEN Return(MatchNull(str))
                   ELSE stack' = SetTop([Top EXCEPT !.str = str]) /\ UNCHANGED ret
    /\ UNCHANGED mainvars

\* the same for the `t` branch
parse_value_true ==
    /\ At("parse_value", "lit_t")
    /\ IF Cur = <<>>
       THEN Return(MatchTrue(Top.str)) /\ UNCHANGED tokens
       ELSE LET ch == Head(Cur)
                str == Append(Top.str, ch)
            IN  /\ tokens' = SetCur(Tail(Cur))
                /\ IF BreakBool(ch)
                   THEN Return(MatchTrue(str))
                   ELSE stack' = SetTop([Top EXCEPT !.str = str]) /\ UNCHANGED ret
    /\ UNCHANGED mainvars

\* the same for the `f` branch
parse_value_false ==
    /\ At("parse_value", "lit_f")
    /\ IF Cur = <<>>
       THEN Return(MatchFalse(Top.str)) /\ UNCHANGED tokens
       ELSE LET ch == Head(Cur)
                str == Append(Top.str, ch)
            IN  /\ tokens' = SetCur(Tail(Cur))
                /\ IF BreakBool(ch)
                   THEN Return(MatchFalse(str))
                   ELSE stack' = SetTop([Top EXCEPT !.str = str]) /\ UNCHANGED ret
    /\ UNCHANGED mainvars

\* the matches on what the callee returned (parser.rs 207-210, 252-259, 262-265)
parse_value_wrap ==
    /\ Len(stack) > 0
    /\ Top.fn = "parse_value"
    /\ Top.pc \in {"ret_string", "ret_object", "ret_array", "ret_number"}
    /\ Return(IF ~ret.ok THEN ErrR
              ELSE IF Top.pc = "ret_string" THEN OkVal(StringV(ret.str))
              ELSE OkVal(ret.val))
    /\ UNCHANGED <<mainvars, tokens>>

(***************************************************************************)
(* parse_array_value (parser.rs 273-298)                                   *)
(***************************************************************************)
\* the head of the loop: the peek, and the call of parse_value
parse_array_value_loop ==
    /\ At("parse_array_value", "start")
    /\ IF Cur = <<>>
       THEN Return(ErrR) /\ UNCHANGED tokens
       ELSE IF Head(Cur) = "]"
       THEN tokens' = SetCur(Tail(Cur)) /\ Return(OkVal(ArrayV(Top.array)))
       ELSE /\ stack' = Append(SetTop([Top EXCEPT !.pc = "ret_value", !.mark = Len(Cur)]),
                               Frame("parse_value", <<>>))
            /\ UNCHANGED <<tokens, ret>>
    /\ UNCHANGED mainvars

parse_array_value_push ==
    /\ At("parse_array_value", "ret_value")
    /\ IF ~ret.ok THEN Return(ErrR)
       ELSE /\ stack' = Append(SetTop([Top EXCEPT !.pc = "ret_ws",
                                                  !.array = Append(Top.array, ret.val)]),
                               Frame("skip_whitspace", <<>>))
            /\ UNCHANGED ret
    /\ UNCHANGED <<mainvars, tokens>>

\* the separator after a value (parser.rs 287-294)
ArraySeparator(token) ==
    IF token = "," THEN "continue" ELSE IF token = "]" THEN "end" ELSE "error"

parse_array_value_sep ==
    /\ At("parse_array_value", "ret_ws")
    /\ IF ~ret.ok THEN Return(ErrR)
       ELSE IF ArraySeparator(ret.ch) = "continue" THEN Goto("start") /\ UNCHANGED ret
       ELSE IF ArraySeparator(ret.ch) = "end" THEN Return(OkVal(ArrayV(Top.array)))
       ELSE Return(ErrR)
    /\ UNCHANGED <<mainvars, tokens>>

(***************************************************************************)
(* parse_object_value (parser.rs 300-334)                                  *)
(***************************************************************************)
\* one iteration of the scan (parser.rs 307-328); when the scan ends, by the
\* break or at the end of the stream, the call of parse_from_string (330)
parse_object_value_scan ==
    /\ At("parse_object_value", "start")
    /\ IF Cur = <<>>
       THEN /\ Call("ret", Frame("parse_from_string", Top.str))
            /\ UNCHANGED tokens
       ELSE LET token == Head(Cur)
                object_str == Append(Top.str, token)
                in_string == IF token = Quote THEN ~Top.flag ELSE Top.flag
                break == token = "}" /\ ~Top.flag /\ Top.opened = 0
                opened == IF token = "{" /\ ~Top.flag THEN Top.opened + 1
                          ELSE IF token = "}" /\ ~Top.flag /\ ~break THEN Top.opened - 1
                          ELSE Top.opened
                scanned == [Top EXCEPT !.str = object_str, !.flag = in_string, !.opened = opened]
            IN  /\ tokens' = SetCur(Tail(Cur))
                /\ IF break
                   THEN stack' = Append(SetTop([scanned EXCEPT !.pc = "ret"]),
                                        Frame("parse_from_string", object_str))
                   ELSE stack' = SetTop(scanned)
    /\ UNCHANGED <<mainvars, ret>>

parse_object_value_ret ==
    /\ At("parse_object_value", "ret")
    /\ Return(IF ret.ok THEN OkVal(ret.val) ELSE ErrR)
    /\ UNCHANGED <<mainvars, tokens>>

(***************************************************************************)
(* parse_numeric_value (parser.rs 336-353): one iteration of its loop and, *)
(* when the loop ends, the conversion                                      *)
(***************************************************************************)
parse_numeric_value ==
    /\ At("parse_numeric_value", "start")
    /\ IF Cur = <<>> \/ ~IsNumeric(Head(Cur))
       THEN /\ Return(IF ParseI32(Top.str).ok THEN OkVal(NumberV(ParseI32(Top.str).n)) ELSE ErrR)
            /\ UNCHANGED tokens
       ELSE /\ tokens' = SetCur(Tail(Cur))
            /\ stack' = SetTop([Top EXCEPT !.str = Append(Top.str, Head(Cur))])
            /\ UNCHANGED ret
    /\ UNCHANGED mainvars

(***************************************************************************)
(* JSON::parse (parser.rs 74-123)                                          *)
(***************************************************************************)
\* parse returns: its cursor goes with its frame
ReturnParse(r) == Return(r) /\ tokens' = Pop(tokens)

\* the check of the first and last character, and the cursor after the `{`
parse_start ==
    /\ At("parse", "start")
    /\ IF ~StartsWithChar(Top.str, "{") \/ ~EndsWithChar(Top.str, "}")
       THEN Return(ErrR) /\ UNCHANGED tokens
       ELSE /\ tokens' = Append(tokens, Tail(Top.str))
            /\ stack' = SetTop([Top EXCEPT !.pc = "loop", !.mark = Len(Top.str)])
            /\ UNCHANGED ret
    /\ UNCHANGED mainvars

\* the head of the pair loop (parser.rs 89-90) and the Ok after it (121)
parse_loop ==
    /\ At("parse", "loop")
    /\ IF Len(Cur) > 1
       THEN /\ stack' = Append(SetTop([Top EXCEPT !.pc = "ret_pair", !.mark = Len(Cur)]),
                               Frame("get_pair", <<>>))
            /\ UNCHANGED <<tokens, ret>>
       ELSE ReturnParse(OkVal(ObjectV(Top.object)))
    /\ UNCHANGED mainvars

\* the pair is inserted (parser.rs 91-93) or the error returned (115-117)
parse_insert ==
    /\ At("parse", "ret_pair")
    /\ IF ~ret.ok THEN ReturnParse(ErrR)
       ELSE /\ stack' = Append(SetTop([Top EXCEPT !.pc = "ret_ws",
                                   !.object = MapInsert(Top.object, ret.str, ret.val)]),
                               Frame("skip_whitspace", <<>>))
            /\ UNCHANGED <<tokens, ret>>
    /\ UNCHANGED mainvars

\* what follows a pair (parser.rs 93-113)
AfterPair(token) ==
    IF token = "}" THEN "end" ELSE IF token = "," THEN "comma" ELSE "error"

parse_after_pair ==
    /\ At("parse", "ret_ws")
    /\ IF ~ret.ok THEN ReturnParse(ErrR)
       ELSE IF AfterPair(ret.ch) = "end" THEN ReturnParse(OkVal(ObjectV(Top.object)))
       ELSE IF AfterPair(ret.ch) = "comma" THEN Goto("comma") /\ UNCHANGED <<tokens, ret>>
       ELSE ReturnParse(ErrR)
    /\ UNCHANGED mainvars

\* a faulty variant: the loop after a comma without its check for `}`
AfterComma_NoCheck(token) == IF IsWhitespace(token) THEN "skip" ELSE "break"

\* what the loop after a comma does with the character it peeks (parser.rs 99-108)
AfterComma(token) ==
    IF token = "}" THEN "error" ELSE IF IsWhitespace(token) THEN "skip" ELSE "break"

\* a faulty variant: the loop after a comma peeks at whitespace and never consumes it
parse_comma_peek ==
    /\ At("parse", "comma")
    /\ IF Cur = <<>> THEN Goto("loop") /\ UNCHANGED <<tokens, ret>>
       ELSE IF AfterComma(Head(Cur)) = "error" THEN ReturnParse(ErrR)
       ELSE IF AfterComma(Head(Cur)) = "skip" THEN UNCHANGED <<stack, tokens, ret>>
       ELSE Goto("loop") /\ UNCHANGED <<tokens, ret>>
    /\ UNCHANGED mainvars

\* one iteration of the loop after a comma
parse_comma ==
    /\ At("parse", "comma")
    /\ IF Cur = <<>> THEN Goto("loop") /\ UNCHANGED <<tokens, ret>>
       ELSE IF AfterComma(Head(Cur)) = "error" THEN ReturnParse(ErrR)
       ELSE IF AfterComma(Head(Cur)) = "skip"
            THEN tokens' = SetCur(Tail(Cur)) /\ UNCHANGED <<stack, ret>>
       ELSE Goto("loop") /\ UNCHANGED <<tokens, ret>>
    /\ UNCHANGED mainvars

(***************************************************************************)
(* parse_from_string (parser.rs 67-72)                                     *)
(***************************************************************************)
InvalidJson == "Invalid JSON file!"

parse_from_string_start ==
    /\ At("parse_from_string", "start")
    /\ Call("ret", Frame("parse", Trim(Top.str)))
    /\ UNCHANGED <<mainvars, tokens, ret>>

parse_from_string_ret ==
    /\ At("parse_from_string", "ret")
    /\ Return(IF ret.ok THEN OkVal(ret.val) ELSE ArgsErr(<<>>, InvalidJson))
    /\ UNCHANGED <<mainvars, tokens>>

(***************************************************************************)
(* parse_from_file (parser.rs 56-65).  files[idx] is the path and what     *)
(* fs::read_to_string finds there.                                         *)
(***************************************************************************)
parse_from_file_start ==
    /\ At("parse_from_file", "start")
    /\ IF ~EndsWith(Top.str, DotJson)
       THEN Return(ArgsErr(Top.str, "is not a JSON file"))
       ELSE IF ~files[idx].exists
       THEN Return(ArgsErr(Top.str, "does not exist!"))
       ELSE Call("ret", Frame("parse_from_string", files[idx].content)) /\ UNCHANGED ret
    /\ UNCHANGED <<mainvars, tokens>>

parse_from_file_ret ==
    /\ At("parse_from_file", "ret")
    /\ Return(ret)
    /\ UNCHANGED <<mainvars, tokens>>

(***************************************************************************)
(* main (main.rs 8-31) with parse_args (utils.rs 3-13)                     *)
(***************************************************************************)
Usage == <<<<>>, "json-parser: usage: json-parser [file ...]">>

\* parse_args and the match on it (main.rs 9-15), status_code = 0 (17)
main_args ==
    /\ mpc = "args"
    /\ IF Len(files) = 0
       THEN /\ stderr' = Append(stderr, Usage)
            /\ exit_code' = 1
            /\ mpc' = "exited"
            /\ UNCHANGED status_code
       ELSE /\ status_code' = 0
            /\ mpc' = "loop"
            /\ UNCHANGED <<stderr, exit_code>>
    /\ UNCHANGED <<files, idx, stdout, results, stack, tokens, ret>>

\* the next file of the loop: the call of parse_from_file (main.rs 18-19)
main_call ==
    /\ mpc = "loop"
    /\ idx <= Len(files)
    /\ stack' = <<Frame("parse_from_file", files[idx].name)>>
    /\ mpc' = "match"
    /\ UNCHANGED <<files, idx, status_code, stdout, stderr, results, exit_code, tokens, ret>>

\* the status after a file that failed (main.rs 21)
StatusOnErr(status) == 1
\* a faulty variant: a success resets the status
StatusOnOk_Reset(status) == 0
\* the status after a file that succeeded (main.rs 24-26): as it was
StatusOnOk(status) == status

\* the match on what parse_from_file returned (main.rs 19-27)
main_match ==
    /\ mpc = "match"
    /\ stack = <<>>
    /\ IF ~ret.ok
       THEN /\ status_code' = StatusOnErr(status_code)
            /\ stderr' = Append(stderr, ret.msg)
            /\ UNCHANGED stdout
       ELSE /\ \E text \in Renders(ret.val) : stdout' = Append(stdout, text)
            /\ status_code' = StatusOnOk(status_code)
            /\ UNCHANGED stderr
    /\ results' = Append(results, ret)
    /\ idx' = idx + 1
    /\ mpc' = "loop"
    /\ UNCHANGED <<files, exit_code, stack, tokens, ret>>

\* exit(status_code) after the last file (main.rs 30)
main_exit ==
    /\ mpc = "loop"
    /\ idx > Len(files)
    /\ exit_code' = status_code
    /\ mpc' = "exited"
    /\ UNCHANGED <<files, idx, status_code, stdout, stderr, results, stack, tokens, ret>>

(***************************************************************************)
(* The inputs                                                              *)
(***************************************************************************)
\* Bounds of the input families
MaxFiles == 3     \* files of a batch
MaxWsRun == 2     \* characters of an inserted run of whitespace
MaxStrLen == 2    \* pieces (a character or an escape) of a generated string literal
MaxArr == 3       \* tokens between the brackets of a generated array

SeqsUpTo(S, n) == UNION {[1..k -> S] : k \in 0..n}

\* tokens
LB == <<"{">>
RB == <<"}">>
LK == <<"[">>
RK == <<"]">>
Colon == <<":">>
Comma == <<",">>
One == <<"1">>
Two == <<"2">>
Str(chars) == <<Quote>> \o chars \o <<Quote>>
KeyA == Str(<<"a">>)
KeyB == Str(<<"b">>)
KeyC == Str(<<"c">>)

\* a document is written as a sequence of tokens; its text is their concatenation
Flat(toks) == Concat(toks)

\* values, as token sequences
ScalarToks ==
    { <<One>>, <<<<"-", "4", "2">>>>, <<LitTrue>>, <<LitFalse>>, <<LitNull>>,
      <<Str(<<"x">>)>>, <<Str(<<"x", Backslash, Quote, "y">>)>> }
NestedToks ==
    { <<LK, RK>>, <<LK, One, Comma, Two, RK>>, <<LB, RB>>,
      <<LB, KeyB, Colon, One, RB>>,
      <<LB, KeyB, Colon, Str(<<"x", "{", "y", "}", "z">>), RB>>,
      <<LK, LB, KeyB, Colon, LitTrue, RB, Comma, Str(<<"]">>), RK>> }
ValueToks == ScalarToks \cup NestedToks

Pair(key, value) == <<key, Colon>> \o value
Doc1(value) == <<LB>> \o Pair(KeyA, value) \o <<RB>>
Doc2(key, v, w) == <<LB>> \o Pair(KeyA, v) \o <<Comma>> \o Pair(key, w) \o <<RB>>

\* well-formed documents
TokDocs ==
    {<<LB, RB>>}
    \cup {Doc1(v) : v \in ValueToks}
    \cup {Doc2(KeyC, v, <<Two>>) : v \in {<<One>>, <<LB, KeyB, Colon, Str(<<"x", "{", "y", "}", "z">>), RB>>}}
    \cup {Doc2(KeyA, <<One>>, <<Two>>)}

WsChars == {" ", "\t", "\n"}
WsRuns == SeqsUpTo(WsChars, MaxWsRun) \ {<<>>}

\* the text of a document with a run of whitespace between tokens i and i+1
InsertWs(toks, i, run) ==
    Flat(SubSeq(toks, 1, i)) \o run \o Flat(SubSeq(toks, i + 1, Len(toks)))

JsonName == <<"a">> \o DotJson
File(content) == [name |-> JsonName, exists |-> TRUE, content |-> content]

\* a document, and the same document with whitespace between two of its tokens
WsPairs ==
    {<<File(Flat(d[1])), File(InsertWs(d[1], d[2], run))>> :
        d \in {e \in TokDocs \X (1..9) : e[2] < Len(e[1])}, run \in WsRuns}

\* one file, one character away from a well-formed document
EditBases ==
    { <<LB, RB>>, Doc1(<<One>>), Doc1(<<LitTrue>>), Doc1(<<LitNull>>), Doc1(<<LitFalse>>),
      Doc1(<<Str(<<"x">>)>>), Doc1(<<LK, One, Comma, Two, RK>>),
      Doc1(<<LB, KeyB, Colon, One, RB>>), Doc2(KeyC, <<One>>, <<Two>>) }
EditChars == {" ", "}", "{", ",", Quote, Backslash, "]", "[", "e", "l", "9", ":"}
Inserted(text) ==
    {SubSeq(text, 1, i) \o <<ch>> \o SubSeq(text, i + 1, Len(text)) :
        i \in 0..Len(text), ch \in EditChars}
Deleted(text) ==
    {SubSeq(text, 1, i - 1) \o SubSeq(text, i + 1, Len(text)) : i \in 1..Len(text)}
EditTexts == UNION {Inserted(Flat(d)) \cup Deleted(Flat(d)) : d \in EditBases}

\* a pair followed by a comma, whitespace and the closing brace: at the top
\* level after the first pair and after the second, and in a nested object
WsRuns0 == SeqsUpTo(WsChars, MaxWsRun)
TrailingCommaTexts ==
    {Flat(<<LB>> \o Pair(KeyA, v) \o <<Comma>>) \o run \o RB : v \in ValueToks, run \in WsRuns0}
    \cup {Flat(<<LB>> \o Pair(KeyA, <<One>>) \o <<Comma>> \o Pair(KeyC, v) \o <<Comma>>) \o run \o RB :
            v \in ScalarToks, run \in WsRuns0}
    \cup {Flat(<<LB, KeyA, Colon, LB>> \o Pair(KeyB, v) \o <<Comma>>) \o run \o RB \o RB :
            v \in ScalarToks, run \in WsRuns0}

\* the places of a value: the only pair, the first of two pairs, the only
\* element of an array, the first of two elements, the value of a nested object
Places == {"only", "first", "element", "head", "nested"}
InPlace(place, word) ==
    CASE place = "only" -> Flat(<<LB, KeyA, Colon>>) \o word \o RB
      [] place = "first" -> Flat(<<LB, KeyA, Colon>>) \o word \o Flat(<<Comma, KeyC, Colon, Two, RB>>)
      [] place = "element" -> Flat(<<LB, KeyA, Colon, LK>>) \o word \o Flat(<<RK, RB>>)
      [] place = "head" -> Flat(<<LB, KeyA, Colon, LK>>) \o word \o Flat(<<Comma, Two, RK, RB>>)
      [] place = "nested" -> Flat(<<LB, KeyA, Colon, LB, KeyB, Colon>>) \o word \o Flat(<<RB, RB>>)
InContexts(word) == {InPlace(place, word) : place \in Places}

\* the literals, and every word one character away from a literal
Literals == {LitNull, LitTrue, LitFalse}
LitChars == {"n", "u", "l", "t", "r", "e", "f", "a", "s", " ", "x"}
LitWords ==
    Literals \cup UNION {
        {SubSeq(w, 1, i) \o <<ch>> \o SubSeq(w, i + 1, Len(w)) : i \in 1..Len(w), ch \in LitChars}
        \cup {SubSeq(w, 1, i - 1) \o SubSeq(w, i + 1, Len(w)) : i \in 2..Len(w)}
        \cup {w \o <<" ">>, <<" ">> \o w}
        : w \in Literals}
LiteralTexts == UNION {InContexts(w) : w \in LitWords}

\* string literals: each piece is a character or a backslash and a character
Pieces == {<<"x">>, <<"{">>, <<"}">>, <<Backslash, Quote>>, <<Backslash, Backslash>>}
StrLits == SeqsUpTo(Pieces, MaxStrLen)
\* the text of a literal between its quotes, and the string it denotes
LitText(lit) == Str(Concat(lit))
LitValue(lit) == Concat([i \in DOMAIN lit |-> <<lit[i][Len(lit[i])]>>])
\* {"a": {"b": <literal>}, "c": 2}
NestedDoc(lit) ==
    Flat(<<LB, KeyA, Colon, <<" ">>, LB, KeyB, Colon, <<" ">>>>) \o LitText(lit)
        \o Flat(<<RB, Comma, <<" ">>, KeyC, Colon, <<" ">>, Two, RB>>)
NestedTexts == {NestedDoc(lit) : lit \in StrLits}

\* arrays: any sequence of values and commas between the brackets
ArrToks == {One, Str(<<"s">>), Comma}
ArrSeqs == SeqsUpTo(ArrToks, MaxArr)
ArrDoc(toks) == Flat(<<LB, KeyA, Colon, LK>>) \o Flat(toks) \o Flat(<<RK, RB>>)
ArrTexts == {ArrDoc(toks) : toks \in ArrSeqs}

\* a complete document followed by more text
JunkTexts ==
    {Flat(d) \o junk : d \in {Doc1(<<One>>), Doc1(<<LB, KeyB, Colon, One, RB>>)},
                       junk \in {RB, Flat(<<Comma, KeyC, Colon, Two, RB>>), Flat(<<KeyC, RB>>)}}
    \cup {Flat(<<LB, KeyA, Colon, LB, KeyB, Colon, One, RB>>) \o RB \o junk \o RB : junk \in {<<>>, <<" ">>}}

\* documents of scalars, and the texts the printer gives for them
ScalarKeys == {<<"a">>, <<"b", " ", "c">>}
ScalarValues ==
    {StringV(<<"x">>), StringV(<<"x", Quote, "y">>), NumberV(-42), BoolV(TRUE), NullV}
ScalarDocs ==
    UNION {[keys -> ScalarValues] : keys \in SUBSET ScalarKeys}
RenderedTexts == UNION {Renders(ObjectV(doc)) : doc \in ScalarDocs}

\* {"a": "x\"y"}
EscapedQuoteText == Flat(<<LB, KeyA, Colon, <<" ">>, Str(<<"x", Backslash, Quote, "y">>), RB>>)

OneFileTexts ==
    {Flat(d) : d \in TokDocs} \cup EditTexts \cup {EscapedQuoteText} \cup TrailingCommaTexts \cup LiteralTexts
    \cup NestedTexts \cup ArrTexts \cup JunkTexts \cup RenderedTexts

\* the files of the batches: one with the wrong extension, one that cannot be
\* read, one well-formed, one malformed
TxtName == <<"b", ".", "t", "x", "t">>
MissingName == <<"c">> \o DotJson
BatchFiles ==
    { [name |-> TxtName, exists |-> TRUE, content |-> Flat(Doc1(<<One>>))],
      [name |-> MissingName, exists |-> FALSE, content |-> <<>>],
      File(Flat(Doc1(<<One>>))),
      File(Flat(<<LB, KeyA, Colon, <<"t", "r", "u">>, RB>>)) }

FileBatches == SeqsUpTo(BatchFiles, MaxFiles)
SingleBatches == {<<File(text)>> : text \in OneFileTexts}

Batches == FileBatches \cup SingleBatches \cup WsPairs

\* the inputs of the runs checked for termination
TermBatches == FileBatches \cup SingleBatches

InitWith(batches) ==
    /\ files \in batches
    /\ idx = 1
    /\ mpc = "args"
    /\ status_code = 0
    /\ stdout = <<>>
    /\ stderr = <<>>
    /\ results = <<>>
    /\ exit_code = NoExit
    /\ stack = <<>>
    /\ tokens = <<>>
    /\ ret = ErrR

Init == InitWith(Batches)
TermInit == InitWith(TermBatches)

Next ==
    \/ main_args
    \/ main_call
    \/ main_match
    \/ main_exit
    \/ parse_from_file_start
    \/ parse_from_file_ret
    \/ parse_from_string_start
    \/ parse_from_string_ret
    \/ parse_start
    \/ parse_loop
    \/ parse_insert
    \/ parse_after_pair
    \/ parse_comma
    \/ get_pair_start
    \/ get_pair_key
    \/ get_pair_colon
    \/ get_pair_value
    \/ skip_whitspace
    \/ parse_key_start
    \/ parse_key_check
    \/ parse_key_loop
    \/ skip_colons_start
    \/ skip_colons_check
    \/ parse_value_start
    \/ parse_value_dispatch
    \/ parse_value_null
    \/ parse_value_true
    \/ parse_value_false
    \/ parse_value_wrap
    \/ parse_string_value
    \/ parse_array_value_loop
    \/ parse_array_value_push
    \/ parse_array_value_sep
    \/ parse_object_value_scan
    \/ parse_object_value_ret
    \/ parse_numeric_value

Spec == Init /\ [][Next]_vars

\* main is one sequential thread: while a step is possible, one is taken
FairSpec == TermInit /\ [][Next]_vars /\ WF_vars(Next)

(***************************************************************************)
(* Properties                                                              *)
(***************************************************************************)
Processed == DOMAIN results
TextOf(i) == files[i].content
GrammarError == ArgsErr(<<>>, InvalidJson)
MapOf(keys, vals) == [k \in {keys[i] : i \in DOMAIN keys} |->
                        vals[CHOOSE i \in DOMAIN keys : keys[i] = k]]

\* C1: whitespace insensitivity.  A document and the same document with a run
\* of whitespace inserted between two of its tokens have the same outcome:
\* the same Document, or an error for both.
SameOutcome(r1, r2) == r1.ok = r2.ok /\ (r1.ok => r1.val = r2.val)
C1_WhitespaceInsensitive ==
    (Len(results) = 2 /\ files \in WsPairs) => SameOutcome(results[1], results[2])

\* C2: nested isolation.  {"a": {"b": <string literal>}, "c": 2} parses to both
\* top-level keys, a being the nested object with b the string the literal
\* denotes, for every string literal: braces and escaped quotes included.
NestedExpected(lit) ==
    MapOf(<<<<"a">>, <<"c">>>>,
          <<ObjectV(MapOf(<<<<"b">>>>, <<StringV(LitValue(lit))>>)), NumberV(2)>>)
NestedCases == {<<NestedDoc(lit), OkVal(ObjectV(NestedExpected(lit)))>> : lit \in StrLits}
C2_NestedIsolation ==
    \A i \in Processed :
        TextOf(i) \in NestedTexts =>
            \A case \in NestedCases : TextOf(i) = case[1] => results[i] = case[2]

\* C3: no partial result.  Whenever JSON::parse returns Ok, for the top-level
\* text or a nested object's, nothing of the text is left in its cursor: after
\* the closing `}` was consumed the cursor is empty, and for the empty
\* document what is left is that `}`.
C3_NoPartialResult ==
    [][(/\ Len(stack) > 0
        /\ Top.fn = "parse"
        /\ stack' = Pop(stack)
        /\ ret'.ok)
       => IF Top.pc = "ret_ws" THEN Cur = <<>> ELSE Cur = RB]_vars

\* C4: a trailing comma in a document is rejected.  A text in which a pair is
\* followed by `,`, zero or more whitespace characters and `}` gives the
\* grammar error, never a Document.
C4_TrailingCommaRejected ==
    \A i \in Processed :
        TextOf(i) \in TrailingCommaTexts => results[i] = GrammarError
C4_Witness ==
    \E i \in Processed :
        /\ TextOf(i) = Flat(<<LB, KeyA, Colon, One, Comma>>) \o <<" ", "\n">> \o RB
        /\ results[i] = GrammarError

\* C5: literal strictness.  A word in the place of a value that is a literal,
\* or one character away from one, is accepted exactly when it is null, true
\* or false (whitespace around it aside), and then is that literal's value;
\* every other word makes the whole parse fail.
LiteralValue(word) ==
    IF word = LitNull THEN NullV ELSE IF word = LitTrue THEN BoolV(TRUE) ELSE BoolV(FALSE)
PlaceExpected(place, value) ==
    CASE place = "only" -> MapOf(<<<<"a">>>>, <<value>>)
      [] place = "first" -> MapOf(<<<<"a">>, <<"c">>>>, <<value, NumberV(2)>>)
      [] place = "element" -> MapOf(<<<<"a">>>>, <<ArrayV(<<value>>)>>)
      [] place = "head" -> MapOf(<<<<"a">>>>, <<ArrayV(<<value, NumberV(2)>>)>>)
      [] place = "nested" -> MapOf(<<<<"a">>>>, <<ObjectV(MapOf(<<<<"b">>>>, <<value>>))>>)
LiteralCases ==
    {<<InPlace(place, word),
       IF Trim(word) \in Literals
       THEN OkVal(ObjectV(PlaceExpected(place, LiteralValue(Trim(word)))))
       ELSE GrammarError>> : place \in Places, word \in LitWords}
C5_LiteralStrictness ==
    \A i \in Processed :
        TextOf(i) \in LiteralTexts =>
            \A case \in LiteralCases : TextOf(i) = case[1] => results[i] = case[2]
C5_Witness ==
    \E i \in Processed :
        /\ TextOf(i) = InPlace("only", <<"t", "r", "u">>)
        /\ results[i] = GrammarError

\* C6: escaped quotes.  {"a": "x\"y"} maps a to the three characters x"y, and
\* a String value is printed between double quotes with every `"` in it
\* written as `\"` and every `\` as `\\`.
Escaped(str) ==
    Concat([i \in DOMAIN str |->
        IF str[i] = Quote THEN <<Backslash, Quote>>
        ELSE IF str[i] = Backslash THEN <<Backslash, Backslash>>
        ELSE <<str[i]>>])
C6_EscapedQuotes ==
    \A i \in Processed :
        /\ TextOf(i) = EscapedQuoteText =>
              results[i] = OkVal(ObjectV(MapOf(<<<<"a">>>>, <<StringV(<<"x", Quote, "y">>)>>)))
        /\ results[i].ok =>
              \A k \in DOMAIN results[i].val.o :
                  LET value == results[i].val.o[k] IN
                  value.type = "String" => Renders(value) = {Str(Escaped(value.s))}

\* C7: round trip.  The text printed for a Document of scalars parses, to a
\* Document with the same keys and values.
RoundTripCases ==
    UNION {{<<text, OkVal(ObjectV(doc))>> : text \in Renders(ObjectV(doc))} : doc \in ScalarDocs}
C7_RoundTrip ==
    \A i \in Processed :
        TextOf(i) \in RenderedTexts =>
            \A case \in RoundTripCases : TextOf(i) = case[1] => results[i] = case[2]

\* C8: batch processing.  The files are processed in the order given, each
\* with the outcome it has on its own; each gives one line, on standard
\* output when it succeeded and on the error stream when it failed; the
\* status is 1 from the first failure on, and main exits with 0 exactly when
\* every file succeeded, and with 1 otherwise, after the last file.
IsOk(r) == r.ok
IsErr(r) == ~r.ok
Failures == SelectSeq(results, IsErr)
Successes == SelectSeq(results, IsOk)
C8_BatchProcessing ==
    Len(files) > 0 =>
        /\ Len(results) <= Len(files)
        /\ idx = Len(results) + 1
        /\ \A i \in Processed :
              /\ ~EndsWith(files[i].name, DotJson) =>
                    results[i] = ArgsErr(files[i].name, "is not a JSON file")
              /\ (EndsWith(files[i].name, DotJson) /\ ~files[i].exists) =>
                    results[i] = ArgsErr(files[i].name, "does not exist!")
              /\ (EndsWith(files[i].name, DotJson) /\ files[i].exists) =>
                    (results[i].ok \/ results[i] = GrammarError)
              /\ \A j \in Processed : files[i] = files[j] => results[i] = results[j]
        /\ stderr = [j \in DOMAIN Failures |-> Failures[j].msg]
        /\ Len(stdout) = Len(Successes)
        /\ \A j \in DOMAIN stdout : stdout[j] \in Renders(Successes[j].val)
        /\ mpc # "args" => status_code = (IF Failures = <<>> THEN 0 ELSE 1)
        /\ mpc # "exited" => exit_code = NoExit
        /\ mpc = "exited" =>
              /\ Len(results) = Len(files)
              /\ exit_code = (IF Failures = <<>> THEN 0 ELSE 1)
C8_Witness ==
    /\ mpc = "exited"
    /\ Len(files) = 3
    /\ ~results[1].ok /\ results[2].ok /\ results[3].ok
    /\ Len(stdout) = 2 /\ Len(stderr) = 1
    /\ exit_code = 1

\* C9: termination.  Every run reaches the exit of main; every iteration of a
\* loop that reads the cursor itself consumes a character or leaves the loop;
\* the pair loop and the array loop are at their head with less of the cursor
\* left than the time before; and a nested object is parsed from a text
\* strictly shorter than the text of the parse that met it.
LeafLoops ==
    { <<"skip_whitspace", "start">>, <<"parse_key", "loop">>, <<"parse_string_value", "start">>,
      <<"parse_value", "lit_n">>, <<"parse_value", "lit_t">>, <<"parse_value", "lit_f">>,
      <<"parse_object_value", "start">>, <<"parse_numeric_value", "start">>,
      <<"parse", "comma">> }
InLeafLoop == Len(stack) > 0 /\ <<Top.fn, Top.pc>> \in LeafLoops
Consumed == Len(tokens') = Len(tokens) /\ Len(tokens'[Len(tokens')]) < Len(Cur)
LeftLoop == Len(stack') # Len(stack) \/ stack'[Len(stack')].pc # Top.pc
AtLoopHead == At("parse", "loop") \/ At("parse_array_value", "start")
ParseFrames == {k \in DOMAIN stack : stack[k].fn = "parse"}
NestedShorter == \A j, k \in ParseFrames : j < k => Len(stack[k].str) < Len(stack[j].str)
C9_Termination ==
    /\ <>(mpc = "exited")
    /\ [][InLeafLoop => (Consumed \/ LeftLoop)]_vars
    /\ [](AtLoopHead => Len(Cur) < Top.mark)
    /\ []NestedShorter
C9_Witness ==
    /\ mpc = "exited"
    /\ \E lit \in StrLits : files = <<File(NestedDoc(lit))>> /\ ~results[1].ok

\* C10: array separators.  [ ] with nothing between is the empty array;
\* otherwise values and commas alternate strictly, beginning and ending with
\* a value, and the elements are stored in the order of the text; every other
\* sequence of values and commas, a trailing comma included, is a grammar error.
WellFormedArr(toks) ==
    \/ toks = <<>>
    \/ /\ Len(toks) % 2 = 1
       /\ \A i \in DOMAIN toks : (toks[i] = Comma) <=> (i % 2 = 0)
ElementOf(tok) == IF tok = One THEN NumberV(1) ELSE StringV(<<"s">>)
ArrExpected(toks) ==
    LET vals == SelectSeq(toks, LAMBDA tok : tok # Comma) IN
    ArrayV([i \in DOMAIN vals |-> ElementOf(vals[i])])
ArrCases ==
    {<<ArrDoc(toks),
       IF WellFormedArr(toks)
       THEN OkVal(ObjectV(MapOf(<<<<"a">>>>, <<ArrExpected(toks)>>)))
       ELSE GrammarError>> : toks \in ArrSeqs}
C10_ArraySeparators ==
    \A i \in Processed :
        TextOf(i) \in ArrTexts =>
            \A case \in ArrCases : TextOf(i) = case[1] => results[i] = case[2]

====
